---- MODULE Spec2Model ----
(***************************************************************************)
(* RingBuffer<T> of src/src/lib.rs: a fixed-size single-producer /         *)
(* single-consumer ring buffer.  One producer thread and one consumer      *)
(* thread; every atomic load, slot access and atomic store of an           *)
(* operation is one step, so the two threads interleave between them.      *)
(***************************************************************************)
EXTENDS Integers, Sequences, FiniteSets, TLC

(* ------------------------------ bounds --------------------------------- *)
\* largest capacity handed to new()
MaxCap == 2
\* the producer starts no call that could take the accepted pushes past this
MaxPushes == 3
\* longest slice handed to write / try_write, largest count handed to read / try_read
MaxBulk == 2
\* width of the counters in bits (usize, scaled down)
W == 4

Modulus == 2 ^ W
\* the element type T: two distinct values tell a reordering or a duplicate apart
Values == {1, 2}
Bufs == UNION {[1 .. k -> Values] : k \in 0 .. MaxBulk}

(* ------------------------------- state --------------------------------- *)
VARIABLES
    built,      \* new() has returned the buffer
    size,       \* RingBuffer.size
    items,      \* RingBuffer.items : 0 .. size-1 -> Option<T>
    write_pos,  \* RingBuffer.write_pos
    read_pos,   \* RingBuffer.read_pos
    overflow_checks, \* the build: integer overflow checks on (debug profile) or off (release)
    ppc,        \* producer: the source line it is about to execute
    p_op,       \* producer: the public method it is in (or was last in)
    p_wp,       \* producer: local write_pos
    p_rp,       \* producer: local read_pos (len)
    p_item,     \* producer: the item being pushed
    p_buf,      \* producer: the rest of the slice of write / try_write
    p_counter,  \* producer: counter of try_write
    p_ret,      \* producer: what the last call returned
    p_n,        \* producer: the number the last call returned
    cpc,        \* consumer: the source line it is about to execute
    c_op,       \* consumer: the public method it is in (or was last in)
    c_rp,       \* consumer: local read_pos
    c_item,     \* consumer: the Option taken out of the slot
    c_left,     \* consumer: iterations left of read / try_read
    c_v,        \* consumer: the Vec of read / try_read, or the value popped
    c_ret,      \* consumer: what the last call returned
    c_n,        \* consumer: the number the last call returned
    pushed,     \* history: the values of the pushes that returned accepted
    popped,     \* history: the values the pops returned
    p_pre,      \* history: the counters and histories when the producer's call started
    c_pre       \* history: the counters and histories when the consumer's call started

shared == <<built, size, items, write_pos, read_pos, overflow_checks>>
prodVars == <<ppc, p_op, p_wp, p_rp, p_item, p_buf, p_counter, p_ret, p_n, p_pre>>
consVars == <<cpc, c_op, c_rp, c_item, c_left, c_v, c_ret, c_n, c_pre>>
vars == <<shared, prodVars, consVars, pushed, popped>>

(* --------------------------- Option<T>, usize -------------------------- *)
None == <<>>
Some(x) == <<x>>
unwrap(o) == o[1]

\* `pos + 1` on a usize: with overflow checks the sum panics at usize::MAX
\* ("attempt to add with overflow"), without them it wraps (Add1)
AddOverflows(x) == overflow_checks /\ x + 1 = Modulus

\* usize arithmetic, wrapping at the counter width. MaxPushes keeps both counters
\* below Modulus in Spec, SpecSeq and SpecLive, where no addition overflows and no
\* subtraction underflows.
Add1Missing(x) == x % Modulus
Add1(x) == (x + 1) % Modulus
Sub(a, b) == (a - b + Modulus) % Modulus

\* the physical slot of a position: pos % self.size
SlotIndexClamped(pos) == IF pos < size THEN pos ELSE size - 1
SlotIndex(pos) == pos % size

\* push: `write_pos - read_pos != self.size`, the loop's exit test
PushHasRoomOffByOne(wp, rp) == Sub(wp, rp) # size + 1
PushHasRoom(wp, rp) == Sub(wp, rp) # size
\* try_push: `write_pos - read_pos == self.size`
TryPushFullGreater(wp, rp) == Sub(wp, rp) > size
TryPushFullEarly(wp, rp) == Sub(wp, rp) + 1 >= size
TryPushFull(wp, rp) == Sub(wp, rp) = size
\* pop: `write_pos != read_pos`, the loop's exit test
PopReadyAtEqual(wp, rp) == wp >= rp
PopReady(wp, rp) == wp # rp
\* try_pop: `write_pos == read_pos`
TryPopEmptyLess(wp, rp) == wp < rp
TryPopEmpty(wp, rp) == wp = rp
\* len: `write_pos - read_pos`
LenOfSwapped(wp, rp) == Sub(rp, wp)
LenOf(wp, rp) == Sub(wp, rp)

\* try_write: `counter += 1`
CountUpMissing(counter) == counter
CountUp(counter) == counter + 1

\* history: what a call found when it started, and the slice or count it was given
Snapshot(buf, n) ==
    [wp |-> write_pos, rp |-> read_pos, npushed |-> Len(pushed),
     npopped |-> Len(popped), buf |-> buf, n |-> n]
NoSnapshot == [wp |-> 0, rp |-> 0, npushed |-> 0, npopped |-> 0, buf |-> <<>>, n |-> 0]

(* ------------------------------- new ----------------------------------- *)
Init ==
    /\ built = FALSE
    /\ size = 0
    /\ items = [i \in {} |-> None]
    /\ write_pos = 0
    /\ read_pos = 0
    \* counters that start at 0 stay below 2^W - 1 within MaxPushes pushes, where
    \* both builds compute the same sums: one build stands for both
    /\ overflow_checks = FALSE
    /\ ppc = "idle" /\ p_op = "none" /\ p_wp = 0 /\ p_rp = 0 /\ p_item = 0
    /\ p_buf = <<>> /\ p_counter = 0 /\ p_ret = "none" /\ p_n = 0
    /\ cpc = "idle" /\ c_op = "none" /\ c_rp = 0 /\ c_item = None
    /\ c_left = 0 /\ c_v = <<>> /\ c_ret = "none" /\ c_n = 0
    /\ pushed = <<>> /\ popped = <<>>
    /\ p_pre = NoSnapshot /\ c_pre = NoSnapshot

\* RingBuffer::new(n)
New(n) ==
    /\ ~built
    /\ built' = TRUE
    /\ size' = n
    /\ items' = [i \in 0 .. n - 1 |-> None]
    /\ write_pos' = 0
    /\ read_pos' = 0
    /\ UNCHANGED <<overflow_checks, prodVars, consVars, pushed, popped>>

(* ----------------------------- producer -------------------------------- *)
ProducerMayStart(k) == built /\ ppc = "idle" /\ Len(pushed) + k <= MaxPushes

\* the producer enters a method: its locals are fresh
Enter(op, item, buf) ==
    /\ p_op' = op
    /\ p_item' = item
    /\ p_buf' = buf
    /\ p_counter' = 0
    /\ p_ret' = "pending"
    /\ p_n' = 0
    /\ p_wp' = 0
    /\ p_rp' = 0
    /\ p_pre' = Snapshot(IF op \in {"write", "try_write"} THEN <<item>> \o buf ELSE <<>>, 0)
    /\ UNCHANGED <<shared, consVars, pushed, popped>>

\* the producer leaves its method with ret (and the number n)
Leave(ret, n) ==
    /\ ppc' = "idle"
    /\ p_ret' = ret
    /\ p_n' = n
    /\ p_wp' = 0
    /\ p_rp' = 0
    /\ p_item' = 0
    /\ p_buf' = <<>>
    /\ p_counter' = 0

\* push(item) is called
Push(item) ==
    /\ ProducerMayStart(1)
    /\ ppc' = "push30"
    /\ Enter("push", item, <<>>)

\* line 30: let write_pos = self.write_pos.load(Acquire)
PushLoadWrite ==
    /\ ppc = "push30"
    /\ p_wp' = write_pos
    /\ ppc' = "push32"
    /\ UNCHANGED <<p_op, p_rp, p_item, p_buf, p_counter, p_ret, p_n, p_pre>>
    /\ UNCHANGED <<shared, consVars, pushed, popped>>

\* lines 32-37: load read_pos; leave the loop when there is room, else park and retry
PushLoadRead ==
    /\ ppc = "push32"
    /\ ppc' = IF PushHasRoom(p_wp, read_pos) THEN "push42" ELSE "push32"
    /\ UNCHANGED <<p_op, p_wp, p_rp, p_item, p_buf, p_counter, p_ret, p_n, p_pre>>
    /\ UNCHANGED <<shared, consVars, pushed, popped>>

\* (the slot write of line 42 left out: push goes on to publish write_pos)
PushWriteSlotSkipped ==
    /\ ppc = "push42"
    /\ ppc' = "push44"
    /\ UNCHANGED <<p_op, p_wp, p_rp, p_item, p_buf, p_counter, p_ret, p_n, p_pre>>
    /\ UNCHANGED <<shared, consVars, pushed, popped>>

\* line 42: mem::replace(&mut items[write_pos % self.size], Some(item))
PushWriteSlot ==
    /\ ppc = "push42"
    /\ IF size = 0
       THEN ppc' = "panicked" /\ UNCHANGED items
       ELSE /\ items' = [items EXCEPT ![SlotIndex(p_wp)] = Some(p_item)]
            /\ ppc' = "push44"
    /\ UNCHANGED <<p_op, p_wp, p_rp, p_item, p_buf, p_counter, p_ret, p_n, p_pre>>
    /\ UNCHANGED <<overflow_checks, built, size, write_pos, read_pos, consVars, pushed, popped>>

\* line 44: self.write_pos.store(write_pos + 1, Release); push returns,
\* and write (lines 95-97) goes on with the next item of its slice
PushStore ==
    /\ ppc = "push44"
    /\ IF AddOverflows(p_wp)
       THEN /\ ppc' = "panicked"
            /\ UNCHANGED <<p_op, p_wp, p_rp, p_item, p_buf, p_counter, p_ret, p_n, p_pre, shared, consVars, pushed, popped>>
       ELSE /\ write_pos' = Add1(p_wp)
            /\ pushed' = Append(pushed, p_item)
            /\ IF p_op = "write" /\ p_buf # <<>>
               THEN /\ ppc' = "push30"
                    /\ p_item' = Head(p_buf)
                    /\ p_buf' = Tail(p_buf)
                    /\ UNCHANGED <<p_wp, p_rp, p_counter, p_ret, p_n>>
               ELSE Leave("unit", 0)
            /\ UNCHANGED <<p_op, p_pre>>
            /\ UNCHANGED <<overflow_checks, built, size, items, read_pos, consVars, popped>>

\* try_push(item) is called
TryPush(item) ==
    /\ ProducerMayStart(1)
    /\ ppc' = "try_push48"
    /\ Enter("try_push", item, <<>>)

\* line 48: let write_pos = self.write_pos.load(Acquire)
TryPushLoadWrite ==
    /\ ppc = "try_push48"
    /\ p_wp' = write_pos
    /\ ppc' = "try_push49"
    /\ UNCHANGED <<p_op, p_rp, p_item, p_buf, p_counter, p_ret, p_n, p_pre>>
    /\ UNCHANGED <<shared, consVars, pushed, popped>>

\* lines 49-52: load read_pos; full: return None, and try_write (lines 103-104)
\* returns its counter
TryPushLoadRead ==
    /\ ppc = "try_push49"
    /\ IF TryPushFull(p_wp, read_pos)
       THEN IF p_op = "try_write"
            THEN Leave("count", p_counter)
            ELSE Leave("None", 0)
       ELSE /\ ppc' = "try_push55"
            /\ UNCHANGED <<p_wp, p_rp, p_item, p_buf, p_counter, p_ret, p_n>>
    /\ UNCHANGED <<p_op, p_pre>>
    /\ UNCHANGED <<shared, consVars, pushed, popped>>

\* line 55: mem::replace(&mut items[write_pos % self.size], Some(item))
TryPushWriteSlot ==
    /\ ppc = "try_push55"
    /\ IF size = 0
       THEN ppc' = "panicked" /\ UNCHANGED items
       ELSE /\ items' = [items EXCEPT ![SlotIndex(p_wp)] = Some(p_item)]
            /\ ppc' = "try_push57"
    /\ UNCHANGED <<p_op, p_wp, p_rp, p_item, p_buf, p_counter, p_ret, p_n, p_pre>>
    /\ UNCHANGED <<overflow_checks, built, size, write_pos, read_pos, consVars, pushed, popped>>

\* lines 57-58: self.write_pos.store(write_pos + 1, Release); Some(()); and
\* try_write (lines 102-108) counts it and goes on with the next item of its slice
TryPushStore ==
    /\ ppc = "try_push57"
    /\ IF AddOverflows(p_wp)
       THEN /\ ppc' = "panicked"
            /\ UNCHANGED <<p_op, p_wp, p_rp, p_item, p_buf, p_counter, p_ret, p_n, p_pre, shared, consVars, pushed, popped>>
       ELSE /\ write_pos' = Add1(p_wp)
            /\ pushed' = Append(pushed, p_item)
            /\ IF p_op = "try_write"
               THEN IF p_buf # <<>>
                    THEN /\ ppc' = "try_push48"
                         /\ p_item' = Head(p_buf)
                         /\ p_buf' = Tail(p_buf)
                         /\ p_counter' = CountUp(p_counter)
                         /\ UNCHANGED <<p_wp, p_rp, p_ret, p_n>>
                    ELSE Leave("count", CountUp(p_counter))
               ELSE Leave("Some", 0)
            /\ UNCHANGED <<p_op, p_pre>>
            /\ UNCHANGED <<overflow_checks, built, size, items, read_pos, consVars, popped>>

\* write(buffer) is called (lines 94-98): push each item in turn
Write(buf) ==
    /\ ProducerMayStart(Len(buf))
    /\ IF buf = <<>>
       THEN /\ p_op' = "write"
            /\ Leave("unit", 0)
            /\ p_pre' = Snapshot(<<>>, 0)
            /\ UNCHANGED <<shared, consVars, pushed, popped>>
       ELSE /\ ppc' = "push30"
            /\ Enter("write", Head(buf), Tail(buf))

\* try_write(buffer) is called (lines 100-109): try_push each item in turn
TryWrite(buf) ==
    /\ ProducerMayStart(Len(buf))
    /\ IF buf = <<>>
       THEN /\ p_op' = "try_write"
            /\ Leave("count", 0)
            /\ p_pre' = Snapshot(<<>>, 0)
            /\ UNCHANGED <<shared, consVars, pushed, popped>>
       ELSE /\ ppc' = "try_push48"
            /\ Enter("try_write", Head(buf), Tail(buf))

\* len() is called by the producer thread
PLen ==
    /\ ProducerMayStart(0)
    /\ ppc' = "len132"
    /\ Enter("len", 0, <<>>)

\* line 132: let read_pos = self.read_pos.load(Acquire)
PLenLoadRead ==
    /\ ppc = "len132"
    /\ p_rp' = read_pos
    /\ ppc' = "len133"
    /\ UNCHANGED <<p_op, p_wp, p_item, p_buf, p_counter, p_ret, p_n, p_pre>>
    /\ UNCHANGED <<shared, consVars, pushed, popped>>

\* lines 133-134: let write_pos = self.write_pos.load(Acquire); write_pos - read_pos
PLenLoadWrite ==
    /\ ppc = "len133"
    /\ Leave("len", LenOf(write_pos, p_rp))
    /\ UNCHANGED <<p_op, p_pre>>
    /\ UNCHANGED <<shared, consVars, pushed, popped>>

ProducerCall ==
    \/ \E item \in Values : Push(item)
    \/ \E item \in Values : TryPush(item)
    \/ \E buf \in Bufs : Write(buf)
    \/ \E buf \in Bufs : TryWrite(buf)
    \/ PLen

ProducerStep ==
    \/ PushLoadWrite
    \/ PushLoadRead
    \/ PushWriteSlot
    \/ PushStore
    \/ TryPushLoadWrite
    \/ TryPushLoadRead
    \/ TryPushWriteSlot
    \/ TryPushStore
    \/ PLenLoadRead
    \/ PLenLoadWrite

(* ----------------------------- consumer -------------------------------- *)
ConsumerMayStart == built /\ cpc = "idle"

\* the consumer enters a method: its locals are fresh
CEnter(op, n) ==
    /\ c_op' = op
    /\ c_left' = n
    /\ c_v' = <<>>
    /\ c_ret' = "pending"
    /\ c_n' = 0
    /\ c_rp' = 0
    /\ c_item' = None
    /\ c_pre' = Snapshot(<<>>, n)
    /\ UNCHANGED <<shared, prodVars, pushed, popped>>

\* the consumer leaves its method with ret, the values v (and the number n)
CLeave(ret, v, n) ==
    /\ cpc' = "idle"
    /\ c_ret' = ret
    /\ c_v' = v
    /\ c_n' = n
    /\ c_rp' = 0
    /\ c_item' = None
    /\ c_left' = 0

\* pop() is called
Pop ==
    /\ ConsumerMayStart
    /\ cpc' = "pop62"
    /\ CEnter("pop", 0)

\* line 62: let read_pos = self.read_pos.load(Acquire)
PopLoadRead ==
    /\ cpc = "pop62"
    /\ c_rp' = read_pos
    /\ cpc' = "pop64"
    /\ UNCHANGED <<c_op, c_item, c_left, c_v, c_ret, c_n, c_pre>>
    /\ UNCHANGED <<shared, prodVars, pushed, popped>>

\* lines 64-69: load write_pos; leave the loop when there is an element, else park
\* and retry
PopLoadWrite ==
    /\ cpc = "pop64"
    /\ cpc' = IF PopReady(write_pos, c_rp) THEN "pop74" ELSE "pop64"
    /\ UNCHANGED <<c_op, c_rp, c_item, c_left, c_v, c_ret, c_n, c_pre>>
    /\ UNCHANGED <<shared, prodVars, pushed, popped>>

\* line 74: mem::replace(&mut items[read_pos % self.size], None)
PopTakeSlot ==
    /\ cpc = "pop74"
    /\ IF size = 0
       THEN cpc' = "panicked" /\ UNCHANGED <<items, c_item>>
       ELSE /\ c_item' = items[SlotIndex(c_rp)]
            /\ items' = [items EXCEPT ![SlotIndex(c_rp)] = None]
            /\ cpc' = "pop76"
    /\ UNCHANGED <<c_op, c_rp, c_left, c_v, c_ret, c_n, c_pre>>
    /\ UNCHANGED <<overflow_checks, built, size, write_pos, read_pos, prodVars, pushed, popped>>

\* lines 76-77: self.read_pos.store(read_pos + 1, Release); item.unwrap(); pop
\* returns, and read (lines 113-116) collects the value and goes on
PopStore ==
    /\ cpc = "pop76"
    /\ IF AddOverflows(c_rp)
       THEN /\ cpc' = "panicked"
            /\ UNCHANGED <<c_op, c_rp, c_item, c_left, c_v, c_ret, c_n, c_pre, shared, prodVars, pushed, popped>>
       ELSE /\ read_pos' = Add1(c_rp)
            /\ IF c_item = None
               THEN /\ cpc' = "panicked"
                    /\ UNCHANGED <<c_rp, c_item, c_left, c_v, c_ret, c_n, popped>>
               ELSE /\ popped' = Append(popped, unwrap(c_item))
                    /\ IF c_op = "read" /\ c_left > 1
                       THEN /\ cpc' = "pop62"
                            /\ c_left' = c_left - 1
                            /\ c_v' = Append(c_v, unwrap(c_item))
                            /\ c_item' = None
                            /\ UNCHANGED <<c_rp, c_ret, c_n>>
                       ELSE IF c_op = "read"
                            THEN CLeave("vec", Append(c_v, unwrap(c_item)), 0)
                            ELSE CLeave("value", <<unwrap(c_item)>>, 0)
            /\ UNCHANGED <<c_op, c_pre>>
            /\ UNCHANGED <<overflow_checks, built, size, items, write_pos, prodVars, pushed>>

\* try_pop() is called
TryPop ==
    /\ ConsumerMayStart
    /\ cpc' = "try_pop81"
    /\ CEnter("try_pop", 0)

\* line 81: let read_pos = self.read_pos.load(Acquire)
TryPopLoadRead ==
    /\ cpc = "try_pop81"
    /\ c_rp' = read_pos
    /\ cpc' = "try_pop82"
    /\ UNCHANGED <<c_op, c_item, c_left, c_v, c_ret, c_n, c_pre>>
    /\ UNCHANGED <<shared, prodVars, pushed, popped>>

\* lines 82-85: load write_pos; empty: return None, and try_read (lines 124-125)
\* returns what it has collected
TryPopLoadWrite ==
    /\ cpc = "try_pop82"
    /\ IF TryPopEmpty(write_pos, c_rp)
       THEN IF c_op = "try_read"
            THEN CLeave("vec", c_v, 0)
            ELSE CLeave("None", <<>>, 0)
       ELSE /\ cpc' = "try_pop88"
            /\ UNCHANGED <<c_rp, c_item, c_left, c_v, c_ret, c_n>>
    /\ UNCHANGED <<c_op, c_pre>>
    /\ UNCHANGED <<shared, prodVars, pushed, popped>>

\* line 88: mem::replace(&mut items[read_pos % self.size], None)
TryPopTakeSlot ==
    /\ cpc = "try_pop88"
    /\ IF size = 0
       THEN cpc' = "panicked" /\ UNCHANGED <<items, c_item>>
       ELSE /\ c_item' = items[SlotIndex(c_rp)]
            /\ items' = [items EXCEPT ![SlotIndex(c_rp)] = None]
            /\ cpc' = "try_pop90"
    /\ UNCHANGED <<c_op, c_rp, c_left, c_v, c_ret, c_n, c_pre>>
    /\ UNCHANGED <<overflow_checks, built, size, write_pos, read_pos, prodVars, pushed, popped>>

\* lines 90-91: self.read_pos.store(read_pos + 1, Release); Some(item.unwrap());
\* and try_read (lines 121-123) collects the value and goes on
TryPopStore ==
    /\ cpc = "try_pop90"
    /\ IF AddOverflows(c_rp)
       THEN /\ cpc' = "panicked"
            /\ UNCHANGED <<c_op, c_rp, c_item, c_left, c_v, c_ret, c_n, c_pre, shared, prodVars, pushed, popped>>
       ELSE /\ read_pos' = Add1(c_rp)
            /\ IF c_item = None
               THEN /\ cpc' = "panicked"
                    /\ UNCHANGED <<c_rp, c_item, c_left, c_v, c_ret, c_n, popped>>
               ELSE /\ popped' = Append(popped, unwrap(c_item))
                    /\ IF c_op = "try_read" /\ c_left > 1
                       THEN /\ cpc' = "try_pop81"
                            /\ c_left' = c_left - 1
                            /\ c_v' = Append(c_v, unwrap(c_item))
                            /\ c_item' = None
                            /\ UNCHANGED <<c_rp, c_ret, c_n>>
                       ELSE IF c_op = "try_read"
                            THEN CLeave("vec", Append(c_v, unwrap(c_item)), 0)
                            ELSE CLeave("Some", <<unwrap(c_item)>>, 0)
            /\ UNCHANGED <<c_op, c_pre>>
            /\ UNCHANGED <<overflow_checks, built, size, items, write_pos, prodVars, pushed>>

\* read(n) is called (lines 111-117): pop n times
Read(n) ==
    /\ ConsumerMayStart
    /\ IF n = 0
       THEN /\ c_op' = "read"
            /\ CLeave("vec", <<>>, 0)
            /\ c_pre' = Snapshot(<<>>, 0)
            /\ UNCHANGED <<shared, prodVars, pushed, popped>>
       ELSE /\ cpc' = "pop62"
            /\ CEnter("read", n)

\* try_read(n) is called (lines 119-129): try_pop up to n times
TryRead(n) ==
    /\ ConsumerMayStart
    /\ IF n = 0
       THEN /\ c_op' = "try_read"
            /\ CLeave("vec", <<>>, 0)
            /\ c_pre' = Snapshot(<<>>, 0)
            /\ UNCHANGED <<shared, prodVars, pushed, popped>>
       ELSE /\ cpc' = "try_pop81"
            /\ CEnter("try_read", n)

\* len() is called by the consumer thread
CLen ==
    /\ ConsumerMayStart
    /\ cpc' = "len132"
    /\ CEnter("len", 0)

\* line 132: let read_pos = self.read_pos.load(Acquire)
CLenLoadRead ==
    /\ cpc = "len132"
    /\ c_rp' = read_pos
    /\ cpc' = "len133"
    /\ UNCHANGED <<c_op, c_item, c_left, c_v, c_ret, c_n, c_pre>>
    /\ UNCHANGED <<shared, prodVars, pushed, popped>>

\* lines 133-134: let write_pos = self.write_pos.load(Acquire); write_pos - read_pos
CLenLoadWrite ==
    /\ cpc = "len133"
    /\ CLeave("len", <<>>, LenOf(write_pos, c_rp))
    /\ UNCHANGED <<c_op, c_pre>>
    /\ UNCHANGED <<shared, prodVars, pushed, popped>>

ConsumerCall ==
    \/ Pop
    \/ TryPop
    \/ \E n \in 0 .. MaxBulk : Read(n)
    \/ \E n \in 0 .. MaxBulk : TryRead(n)
    \/ CLen

ConsumerStep ==
    \/ PopLoadRead
    \/ PopLoadWrite
    \/ PopTakeSlot
    \/ PopStore
    \/ TryPopLoadRead
    \/ TryPopLoadWrite
    \/ TryPopTakeSlot
    \/ TryPopStore
    \/ CLenLoadRead
    \/ CLenLoadWrite

(* --------------------------- specifications ---------------------------- *)
\* one producer thread and one consumer thread, interleaved step by step
Next ==
    \/ \E n \in 0 .. MaxCap : New(n)
    \/ ProducerCall
    \/ ProducerStep
    \/ ConsumerCall
    \/ ConsumerStep

Spec == Init /\ [][Next]_vars

\* one call at a time: a thread moves only while the other has no call in flight
ConsumerIdle == cpc = "idle"
ProducerIdle == ppc = "idle"

SeqNext ==
    \/ \E n \in 0 .. MaxCap : New(n)
    \/ ConsumerIdle /\ \E item \in Values : Push(item)
    \/ ConsumerIdle /\ \E item \in Values : TryPush(item)
    \/ ConsumerIdle /\ \E buf \in Bufs : Write(buf)
    \/ ConsumerIdle /\ \E buf \in Bufs : TryWrite(buf)
    \/ ConsumerIdle /\ PLen
    \/ ConsumerIdle /\ PushLoadWrite
    \/ ConsumerIdle /\ PushLoadRead
    \/ ConsumerIdle /\ PushWriteSlot
    \/ ConsumerIdle /\ PushStore
    \/ ConsumerIdle /\ TryPushLoadWrite
    \/ ConsumerIdle /\ TryPushLoadRead
    \/ ConsumerIdle /\ TryPushWriteSlot
    \/ ConsumerIdle /\ TryPushStore
    \/ ConsumerIdle /\ PLenLoadRead
    \/ ConsumerIdle /\ PLenLoadWrite
    \/ ProducerIdle /\ Pop
    \/ ProducerIdle /\ TryPop
    \/ ProducerIdle /\ \E n \in 0 .. MaxBulk : Read(n)
    \/ ProducerIdle /\ \E n \in 0 .. MaxBulk : TryRead(n)
    \/ ProducerIdle /\ CLen
    \/ ProducerIdle /\ PopLoadRead
    \/ ProducerIdle /\ PopLoadWrite
    \/ ProducerIdle /\ PopTakeSlot
    \/ ProducerIdle /\ PopStore
    \/ ProducerIdle /\ TryPopLoadRead
    \/ ProducerIdle /\ TryPopLoadWrite
    \/ ProducerIdle /\ TryPopTakeSlot
    \/ ProducerIdle /\ TryPopStore
    \/ ProducerIdle /\ CLenLoadRead
    \/ ProducerIdle /\ CLenLoadWrite

SpecSeq == Init /\ [][SeqNext]_vars

\* the producer makes MaxPushes blocking pushes while the consumer makes MaxPushes
\* blocking pops; both threads keep being scheduled
LiveProducer ==
    \/ \E item \in Values : Push(item)
    \/ PushLoadWrite
    \/ PushLoadRead
    \/ PushWriteSlot
    \/ PushStore

LiveConsumer ==
    \/ Len(popped) < MaxPushes /\ Pop
    \/ PopLoadRead
    \/ PopLoadWrite
    \/ PopTakeSlot
    \/ PopStore

LiveNext ==
    \/ \E n \in 0 .. MaxCap : New(n)
    \/ LiveProducer
    \/ LiveConsumer

SpecLive ==
    /\ Init
    /\ [][LiveNext]_vars
    /\ WF_vars(\E n \in 0 .. MaxCap : New(n))
    /\ WF_vars(LiveProducer)
    /\ WF_vars(LiveConsumer)

(* ------------------------------ properties ----------------------------- *)
IsPrefix(s, t) == Len(s) <= Len(t) /\ SubSeq(t, 1, Len(s)) = s
Min(a, b) == IF a <= b THEN a ELSE b
\* the elements pushed and not yet popped, oldest first
Queue == SubSeq(pushed, Len(popped) + 1, Len(pushed))
Quiescent == ppc = "idle" /\ cpc = "idle"

\* C1: with the producer and the consumer interleaved step by step on a buffer of
\* capacity >= 1, the values the pops have returned are always a prefix of the
\* values the pushes have had accepted: nothing is duplicated, dropped or reordered.
C1_PoppedIsPrefixOfPushed ==
    (built /\ size >= 1) => IsPrefix(popped, pushed)

\* two different values have come out in order while the producer is in its third
\* push and the consumer waits in a pop
C1_Witness ==
    /\ size >= 1
    /\ Len(popped) >= 2
    /\ popped[1] # popped[2]
    /\ ppc = "push42"
    /\ cpc = "pop64"

\* C2: with one call at a time on a buffer of capacity >= 1 the buffer is a bounded
\* FIFO queue of that capacity: an element is accepted only below capacity and goes
\* to the back, every successful pop takes and returns the oldest element not yet
\* popped, try_push is rejected only when full and try_pop absent only when empty,
\* and between calls the queue lies in the slots read_pos, read_pos + 1, ... mod
\* capacity, also after more than capacity elements have gone through.
C2_Step ==
    (built' /\ size' >= 1) =>
        /\ IsPrefix(popped', pushed')
        /\ Len(pushed') - Len(popped') <= size'
        /\ Quiescent' =>
              \A k \in 1 .. Len(Queue') :
                  items'[(read_pos' + k - 1) % size'] = Some(Queue'[k])
        /\ popped' # popped =>
              /\ Queue # <<>>
              /\ popped' = Append(popped, Head(Queue))
        /\ pushed' # pushed =>
              /\ Len(Queue) < size
              /\ Queue' = Append(Queue, p_item)
        /\ (ppc = "try_push49" /\ ppc' = "idle") => Len(Queue) = size
        /\ (ppc = "try_push49" /\ ppc' = "try_push55") => Len(Queue) < size
        /\ (cpc = "try_pop82" /\ cpc' = "idle") => Queue = <<>>
        /\ (cpc = "try_pop82" /\ cpc' = "try_pop88") => Queue # <<>>
        /\ (cpc # "idle" /\ cpc' = "idle" /\ c_ret' \in {"value", "Some"}) =>
              /\ Queue # <<>>
              /\ c_v' = <<Head(Queue)>>

C2_BoundedFifoSequential == [][C2_Step]_vars

\* between calls, after more elements than the capacity have been pushed and popped
C2_Witness ==
    /\ size >= 1
    /\ Quiescent
    /\ Len(popped) > size
    /\ c_ret \in {"value", "Some"}
    /\ c_v = <<pushed[Len(popped)]>>

\* C3: on a buffer of capacity >= 1, with both threads scheduled weakly fairly, the
\* MaxPushes blocking pushes of the producer and the MaxPushes blocking pops of the
\* consumer all return: every call in flight returns, and in the end all are done.
LiveDone ==
    /\ Quiescent
    /\ Len(pushed) = MaxPushes
    /\ Len(popped) = MaxPushes

C3_BlockingCallsReturn ==
    /\ [](built /\ size >= 1 => <>LiveDone)
    /\ [](built /\ size >= 1 /\ ppc # "idle" => <>(ppc = "idle"))
    /\ [](built /\ size >= 1 /\ cpc # "idle" => <>(cpc = "idle"))

\* all the pushes and pops have returned, on a buffer smaller than their number
C3_Witness ==
    /\ size >= 1
    /\ size < MaxPushes
    /\ LiveDone
    /\ popped = pushed

\* C4: in every reachable state, in the middle of any call too,
\* write_pos - read_pos <= capacity.
C4_OccupancyAtMostCapacity ==
    built => write_pos - read_pos <= size

\* the buffer is full while the producer waits in push and the consumer is taking
\* an element out
C4_Witness ==
    /\ size >= 1
    /\ write_pos - read_pos = size
    /\ ppc = "push32"
    /\ cpc \in {"pop74", "try_pop88"}

\* C5: in every reachable state, in the middle of any call too,
\* read_pos <= write_pos.
C5_ReadNotPastWrite ==
    built => read_pos <= write_pos

\* the buffer has been emptied again and the consumer waits in pop while the
\* producer is about to write a slot
C5_Witness ==
    /\ size >= 1
    /\ read_pos = write_pos
    /\ read_pos >= 1
    /\ cpc = "pop64"
    /\ ppc \in {"push42", "try_push55"}

\* C6: new(0) is rejected: no buffer of capacity 0 is ever returned.
C6_ZeroCapacityRejected ==
    built => size >= 1

\* C7: try_push returns rejected exactly when the occupancy it observes equals the
\* capacity, then changing no counter and no slot and returning at once; otherwise
\* it stores the item in slot write_pos mod capacity, increases write_pos by exactly
\* 1 and returns accepted. After capacity accepted pushes and no pop it is rejected.
C7_Step ==
    /\ (ppc = "try_push49" /\ ppc' # "try_push49") =>
          /\ UNCHANGED <<write_pos, read_pos, items, pushed>>
          /\ IF write_pos - read_pos = size
             THEN /\ ppc' = "idle"
                  /\ p_op = "try_push" => p_ret' = "None"
             ELSE ppc' = "try_push55"
          /\ (Len(pushed) = size /\ write_pos = size /\ read_pos = 0) => ppc' = "idle"
    /\ (ppc = "try_push55" /\ ppc' # "try_push55") =>
          /\ size >= 1
          /\ ppc' = "try_push57"
          /\ UNCHANGED <<write_pos, read_pos, pushed>>
          /\ items' = [items EXCEPT ![write_pos % size] = Some(p_item)]
    /\ (ppc = "try_push57" /\ ppc' # "try_push57") =>
          /\ size >= 1
          /\ write_pos' = write_pos + 1
          /\ UNCHANGED <<read_pos, items>>
          /\ items[write_pos % size] = Some(p_item)
          /\ pushed' = Append(pushed, p_item)
          /\ p_op = "try_push" => (ppc' = "idle" /\ p_ret' = "Some")

C7_TryPush == [][C7_Step]_vars

\* a try_push has been rejected after capacity accepted pushes and no pop
C7_Witness ==
    /\ size >= 1
    /\ ppc = "idle"
    /\ p_op = "try_push"
    /\ p_ret = "None"
    /\ Len(pushed) = size
    /\ write_pos = size
    /\ read_pos = 0

\* C8: try_pop returns absent exactly when it observes read_pos = write_pos, then
\* changing no counter and no slot and returning at once; otherwise it returns the
\* element at logical position read_pos, leaves its slot empty and increases
\* read_pos by exactly 1.
C8_Step ==
    /\ (cpc = "try_pop82" /\ cpc' # "try_pop82") =>
          /\ UNCHANGED <<write_pos, read_pos, items, popped>>
          /\ IF read_pos = write_pos
             THEN /\ cpc' = "idle"
                  /\ c_op = "try_pop" => c_ret' = "None"
             ELSE cpc' = "try_pop88"
    /\ (cpc = "try_pop88" /\ cpc' # "try_pop88") =>
          /\ size >= 1
          /\ cpc' = "try_pop90"
          /\ UNCHANGED <<write_pos, read_pos, popped>>
          /\ read_pos < Len(pushed)
          /\ c_item' = Some(pushed[read_pos + 1])
          /\ items' = [items EXCEPT ![read_pos % size] = None]
    /\ (cpc = "try_pop90" /\ cpc' # "try_pop90") =>
          /\ size >= 1
          /\ read_pos' = read_pos + 1
          /\ UNCHANGED <<write_pos, items>>
          /\ items[read_pos % size] = None
          /\ read_pos < Len(pushed)
          /\ popped' = Append(popped, pushed[read_pos + 1])
          /\ c_op = "try_pop" =>
                (cpc' = "idle" /\ c_ret' = "Some" /\ c_v' = <<pushed[read_pos + 1]>>)

C8_TryPop == [][C8_Step]_vars

\* a try_pop has found the buffer empty again after elements went through it
C8_Witness ==
    /\ size >= 1
    /\ cpc = "idle"
    /\ c_op = "try_pop"
    /\ c_ret = "None"
    /\ Len(popped) >= 1
    /\ read_pos = write_pos

\* C9: called with no other call in flight, len() returns the number of pushes that
\* returned accepted minus the number of pops that returned an element.
C9_Step ==
    /\ (ppc = "len133" /\ ppc' = "idle") =>
          (p_ret' = "len" /\ p_n' = Len(pushed) - Len(popped))
    /\ (cpc = "len133" /\ cpc' = "idle") =>
          (c_ret' = "len" /\ c_n' = Len(pushed) - Len(popped))

C9_LenIsPushesMinusPops == [][C9_Step]_vars

\* len() has returned a positive number after elements were pushed and popped
C9_Witness ==
    /\ Quiescent
    /\ p_op = "len"
    /\ p_ret = "len"
    /\ p_n >= 1
    /\ Len(popped) >= 1
    /\ p_n = Len(pushed) - Len(popped)

\* C10: what the last try_write found and did
TryWriteReturned == ppc = "idle" /\ p_op = "try_write" /\ p_ret = "count"
TryWriteRoom == size - (p_pre.wp - p_pre.rp)
TryWriteAccepted == SubSeq(pushed, p_pre.npushed + 1, Len(pushed))

\* C10 as stated: a try_write of more elements than the remaining capacity r at the
\* start of the call accepts exactly the first r of them and returns r.
C10_Original ==
    (TryWriteReturned /\ Len(p_pre.buf) > TryWriteRoom) =>
        /\ p_n = TryWriteRoom
        /\ TryWriteAccepted = SubSeq(p_pre.buf, 1, TryWriteRoom)

\* C10 as amended: the elements try_write enqueues are always a prefix of its slice,
\* the count it returns is always their number, and that number is at least
\* min(r, length of the slice) for the remaining capacity r at the start of the
\* call; when the slice is longer than r and the consumer completes no pop during
\* the call, it accepts exactly the first r elements and returns r.
C10_Step ==
    TryWriteReturned' =>
        /\ p_n' = Len(TryWriteAccepted')
        /\ IsPrefix(TryWriteAccepted', p_pre'.buf)
        /\ p_n' >= Min(TryWriteRoom', Len(p_pre'.buf))
        /\ (ppc # "idle" /\ read_pos = p_pre.rp /\ Len(p_pre.buf) > TryWriteRoom) =>
              /\ p_n' = TryWriteRoom
              /\ TryWriteAccepted' = SubSeq(p_pre.buf, 1, TryWriteRoom)

C10_TryWritePrefix == [][C10_Step]_vars

\* a try_write of more elements than there was room for has returned the room,
\* at least 1, with no pop completed meanwhile
C10_Witness ==
    /\ TryWriteReturned
    /\ size >= 1
    /\ p_n >= 1
    /\ Len(p_pre.buf) > p_n
    /\ p_n = TryWriteRoom
    /\ read_pos = p_pre.rp

\* C11: what the last try_read found and did
TryReadReturned == cpc = "idle" /\ c_op = "try_read" /\ c_ret = "vec"
TryReadHad == c_pre.wp - c_pre.rp
TryReadTook == Min(c_pre.n, TryReadHad)

\* C11: try_read(n) never waits and returns at most n elements, the ones it popped,
\* in FIFO order; they are at least the min(n, k) oldest of the k elements in the
\* buffer when it was called, and with no push completed since the call they are
\* exactly those, the other k - min(n, k) elements staying in the buffer.
C11_TryRead ==
    /\ c_op = "try_read" =>
          cpc \in {"idle", "try_pop81", "try_pop82", "try_pop88", "try_pop90"}
    /\ TryReadReturned =>
          /\ Len(c_v) <= c_pre.n
          /\ Len(c_v) >= TryReadTook
          /\ Len(popped) = c_pre.npopped + Len(c_v)
          /\ c_v = SubSeq(pushed, c_pre.npopped + 1, c_pre.npopped + Len(c_v))
          /\ write_pos = c_pre.wp =>
                /\ Len(c_v) = TryReadTook
                /\ write_pos - read_pos = TryReadHad - TryReadTook
                /\ \A j \in 1 .. TryReadHad - TryReadTook :
                      items[(read_pos + j - 1) % size] = Some(pushed[Len(popped) + j])

\* a try_read of 2 has returned the only element there was, and no push has
\* completed since it was called
C11_Witness ==
    /\ TryReadReturned
    /\ size >= 1
    /\ c_pre.n = 2
    /\ TryReadHad = 1
    /\ Len(c_v) = 1
    /\ write_pos = c_pre.wp

\* C12: the last write was given a slice no longer than the capacity on an empty
\* buffer
WriteOnEmpty ==
    /\ size >= 1
    /\ p_op = "write"
    /\ p_pre.wp = p_pre.rp
    /\ Len(p_pre.buf) <= size
\* ... it has returned, and a read of as many elements was called next
ReadAfterWrite ==
    /\ WriteOnEmpty
    /\ ppc = "idle"
    /\ p_ret = "unit"
    /\ c_op = "read"
    /\ c_pre.n = Len(p_pre.buf)
    /\ c_pre.npushed = p_pre.npushed + Len(p_pre.buf)
    /\ c_pre.npopped = p_pre.npopped

\* C12: on an empty buffer of capacity C, write(xs) with length(xs) <= C followed
\* by read(length(xs)), one call at a time: neither call ever has to wait, read
\* returns exactly xs, and the buffer is empty afterwards.
C12_WriteReadRoundTrip ==
    /\ (WriteOnEmpty /\ ppc = "push32") => write_pos - read_pos # size
    /\ WriteOnEmpty => ppc # "panicked"
    /\ (WriteOnEmpty /\ ppc = "idle" /\ p_ret = "unit") =>
          /\ Len(pushed) = p_pre.npushed + Len(p_pre.buf)
          /\ SubSeq(pushed, p_pre.npushed + 1, Len(pushed)) = p_pre.buf
    /\ (ReadAfterWrite /\ cpc = "pop64") => write_pos # read_pos
    /\ ReadAfterWrite =>
          /\ cpc # "panicked"
          /\ IsPrefix(c_v, p_pre.buf)
    /\ (ReadAfterWrite /\ cpc = "idle" /\ c_ret = "vec") =>
          /\ c_v = p_pre.buf
          /\ write_pos = read_pos
          /\ \A i \in 0 .. size - 1 : items[i] = None

\* a read has returned the two elements a write put into the empty buffer
C12_Witness ==
    /\ ReadAfterWrite
    /\ cpc = "idle"
    /\ c_ret = "vec"
    /\ Len(p_pre.buf) = 2
    /\ c_v = p_pre.buf
    /\ c_v[1] # c_v[2]

ProducerAtSlot == ppc \in {"push42", "try_push55"}
ConsumerAtSlot == cpc \in {"pop74", "try_pop88"}

\* C13: whenever pop or try_pop is about to take the element out of slot
\* read_pos mod capacity, that slot holds an element, whatever the producer is
\* doing: the Option taken is never None and the unwrap never panics.
C13_TakenSlotHoldsElement ==
    built =>
        /\ cpc # "panicked"
        /\ ConsumerAtSlot => (size >= 1 /\ items[c_rp % size] # None)
        /\ cpc \in {"pop76", "try_pop90"} => c_item # None

\* the consumer has taken an element while the producer has written the next slot
\* and not yet published it
C13_Witness ==
    /\ size >= 1
    /\ cpc = "pop76"
    /\ c_item # None
    /\ ppc = "push44"

\* C14: whenever push or try_push is about to write its item into slot
\* write_pos mod capacity, that slot is empty: no element not yet popped is
\* overwritten, also when the slot is reused after wrap-around.
C14_WrittenSlotIsEmpty ==
    built =>
        /\ ppc # "panicked"
        /\ ProducerAtSlot => (size >= 1 /\ items[p_wp % size] = None)

\* the producer is about to reuse a slot while the consumer is in a call
C14_Witness ==
    /\ size >= 1
    /\ ppc = "push42"
    /\ p_wp >= size
    /\ items[p_wp % size] = None
    /\ cpc \in {"pop62", "pop64", "try_pop81", "try_pop82"}

\* C15: the producer at its slot write and the consumer at its slot take are never
\* on the same physical slot.
C15_SlotsDisjoint ==
    (built /\ ProducerAtSlot /\ ConsumerAtSlot) =>
        (size >= 1 /\ p_wp % size # c_rp % size)

\* both threads are at their slot access at once, on different slots
C15_Witness ==
    /\ ProducerAtSlot
    /\ ConsumerAtSlot
    /\ size >= 2
    /\ p_wp % size # c_rp % size

\* slot i is the slot of a logical position p with lo <= p < hi
SlotIn(i, lo, hi) == \E p \in lo .. hi - 1 : p % size = i
\* the push in flight has written its slot and not yet stored write_pos
ProducerWrote == ppc \in {"push44", "try_push57"}
\* the pop in flight has emptied its slot and not yet stored read_pos
ConsumerTook == cpc \in {"pop76", "try_pop90"}

\* C16 as stated: at every instant, between a slot access and the counter store
\* too, a slot holds an element iff it is the slot of a position p with
\* read_pos <= p < write_pos.
C16_Original ==
    (built /\ size >= 1) =>
        \A i \in 0 .. size - 1 :
            items[i] # None <=> SlotIn(i, read_pos, write_pos)

\* C16 as amended: a slot holds an element iff it is the slot of a position p with
\* lo <= p < hi, where lo is read_pos, or read_pos + 1 once the pop in flight has
\* emptied its slot, and hi is write_pos, or write_pos + 1 once the push in flight
\* has written its slot; so the stated equivalence holds at every instant at which
\* neither thread is between its slot access and its counter store.
C16_SlotsHoldLivePositions ==
    (built /\ size >= 1) =>
        \A i \in 0 .. size - 1 :
            items[i] # None <=>
                SlotIn(i, read_pos + (IF ConsumerTook THEN 1 ELSE 0),
                          write_pos + (IF ProducerWrote THEN 1 ELSE 0))

\* the buffer has been filled again past the wrap-around and neither thread is
\* between a slot access and its store: a full slot and, with capacity 2, an
\* empty one
C16_Witness ==
    /\ size = 2
    /\ write_pos = 3
    /\ read_pos = 2
    /\ ~ProducerWrote
    /\ ~ConsumerTook
    /\ items[0] # None
    /\ items[1] = None

\* C17: a blocking push in its wait loop changes no counter and no slot, leaves the
\* loop only when the occupancy is below capacity, which for a push called on a
\* full buffer is only after the consumer has stored a larger read_pos, and stays
\* in the loop as long as the buffer is full and read_pos does not change;
\* a blocking pop in its wait loop changes no counter and no slot, leaves the loop
\* only when write_pos differs from read_pos, which for a pop called on an empty
\* buffer is only after the producer has stored a larger write_pos, and stays in
\* the loop as long as the buffer is empty and write_pos does not change.
C17_Step ==
    /\ (ppc \in {"push30", "push32"} /\ consVars' = consVars) =>
          UNCHANGED <<write_pos, read_pos, items, pushed, popped>>
    /\ (ppc = "push32" /\ ppc' # "push32") =>
          /\ ppc' = "push42"
          /\ write_pos - read_pos < size
          /\ p_pre.wp - p_pre.rp = size => read_pos > p_pre.rp
    /\ (ppc = "push32" /\ write_pos - read_pos = size /\ read_pos' = read_pos) =>
          ppc' = "push32"
    /\ (cpc \in {"pop62", "pop64"} /\ prodVars' = prodVars) =>
          UNCHANGED <<write_pos, read_pos, items, pushed, popped>>
    /\ (cpc = "pop64" /\ cpc' # "pop64") =>
          /\ cpc' = "pop74"
          /\ write_pos > read_pos
          /\ c_pre.wp = c_pre.rp => write_pos > c_pre.wp
    /\ (cpc = "pop64" /\ write_pos = read_pos /\ write_pos' = write_pos) =>
          cpc' = "pop64"

C17_BlockedUntilOtherSideActs == [][C17_Step]_vars

\* a push called on a full buffer has left its wait loop after the consumer stored
\* a larger read_pos
C17_Witness ==
    /\ size >= 1
    /\ p_op = "push"
    /\ ppc = "push42"
    /\ p_pre.wp - p_pre.rp = size
    /\ read_pos > p_pre.rp

\* C18: write_pos changes only in the store of push / try_push and read_pos only in
\* the store of pop / try_pop, each time by exactly +1, so neither ever decreases;
\* a producer step leaves read_pos alone and a consumer step write_pos; the steps
\* of len() and of a rejected try_push or an absent try_pop change no counter and
\* no slot, and such a call returns with its thread's counter as it found it.
C18_Step ==
    /\ write_pos' # write_pos =>
          /\ ppc \in {"push44", "try_push57"}
          /\ consVars' = consVars
    /\ read_pos' # read_pos =>
          /\ cpc \in {"pop76", "try_pop90"}
          /\ prodVars' = prodVars
    /\ (ppc \in {"push44", "try_push57"} /\ ppc' # ppc) => write_pos' = write_pos + 1
    /\ (cpc \in {"pop76", "try_pop90"} /\ cpc' # cpc) => read_pos' = read_pos + 1
    /\ write_pos' >= write_pos
    /\ read_pos' >= read_pos
    /\ prodVars' # prodVars => UNCHANGED <<read_pos, popped>>
    /\ consVars' # consVars => UNCHANGED <<write_pos, pushed>>
    /\ (prodVars' # prodVars /\ (ppc \in {"len132", "len133"} \/ ppc' = "len132")) =>
          UNCHANGED <<write_pos, read_pos, items>>
    /\ (consVars' # consVars /\ (cpc \in {"len132", "len133"} \/ cpc' = "len132")) =>
          UNCHANGED <<write_pos, read_pos, items>>
    /\ (ppc = "try_push49" /\ ppc' = "idle") => UNCHANGED <<write_pos, read_pos, items>>
    /\ (cpc = "try_pop82" /\ cpc' = "idle") => UNCHANGED <<write_pos, read_pos, items>>
    /\ (ppc' = "idle" /\ p_ret' \in {"None", "len"}) =>
          (write_pos' = p_pre'.wp /\ Len(pushed') = p_pre'.npushed)
    /\ (cpc' = "idle" /\ c_ret' \in {"None", "len"}) =>
          (read_pos' = c_pre'.rp /\ Len(popped') = c_pre'.npopped)

C18_CountersFrame == [][C18_Step]_vars

\* after pushes and pops advanced both counters, a try_push was rejected and a
\* try_pop found nothing
C18_Witness ==
    /\ size >= 1
    /\ write_pos >= 2
    /\ read_pos >= 1
    /\ ppc = "idle" /\ p_op = "try_push" /\ p_ret = "None"
    /\ cpc = "idle" /\ c_op = "try_pop" /\ c_ret = "None"

\* C19: len() called by the producer while the consumer runs: the read_pos it
\* loads is the current one, write_pos does not change until it returns, so the
\* value write_pos - read_pos it returns is the occupancy at the instant of its
\* first load; called by the consumer while the producer runs: read_pos does not
\* change during the call, so the value is the occupancy at the instant of its
\* second load. Either way the subtraction does not go below zero and the value
\* is within 0 .. capacity.
C19_Step ==
    /\ (ppc = "len132" /\ ppc' = "len133") =>
          (p_rp' = read_pos /\ write_pos = p_pre.wp)
    /\ ppc = "len133" =>
          /\ write_pos' = write_pos
          /\ ppc' = "len133" => p_rp' = p_rp
    /\ (ppc = "len133" /\ ppc' = "idle") =>
          /\ p_ret' = "len"
          /\ p_pre.rp <= p_rp /\ p_rp <= read_pos
          /\ write_pos = p_pre.wp
          /\ write_pos >= p_rp
          /\ p_n' = write_pos - p_rp
          /\ p_n' >= 0 /\ p_n' <= size
    /\ (cpc = "len132" /\ cpc' = "len133") => c_rp' = read_pos
    /\ cpc = "len133" =>
          /\ read_pos' = read_pos
          /\ cpc' = "len133" => c_rp' = c_rp
    /\ (cpc = "len133" /\ cpc' = "idle") =>
          /\ c_ret' = "len"
          /\ c_rp = read_pos
          /\ write_pos >= c_rp
          /\ c_n' = write_pos - read_pos
          /\ c_n' >= 0 /\ c_n' <= size

C19_LenIsASnapshot == [][C19_Step]_vars

\* the producer is between the two loads of len() and the consumer has stored a
\* larger read_pos since the first
C19_Witness ==
    /\ size >= 1
    /\ ppc = "len133"
    /\ p_rp < read_pos
    /\ write_pos - p_rp > write_pos - read_pos

(* ------------------- the counters at the end of their range ------------ *)
WrapCap == 3

\* An empty buffer whose counters have come within MaxCap positions of 2^W - 1:
\* the state after that many push/pop pairs on a new buffer, in either build. The
\* histories are recorded from this state on.
InitWrap ==
    /\ built = TRUE
    /\ size \in 1 .. WrapCap
    /\ items = [i \in 0 .. size - 1 |-> None]
    /\ write_pos \in Modulus - MaxCap .. Modulus - 1
    /\ read_pos = write_pos
    /\ overflow_checks \in BOOLEAN
    /\ ppc = "idle" /\ p_op = "none" /\ p_wp = 0 /\ p_rp = 0 /\ p_item = 0
    /\ p_buf = <<>> /\ p_counter = 0 /\ p_ret = "none" /\ p_n = 0
    /\ cpc = "idle" /\ c_op = "none" /\ c_rp = 0 /\ c_item = None
    /\ c_left = 0 /\ c_v = <<>> /\ c_ret = "none" /\ c_n = 0
    /\ pushed = <<>> /\ popped = <<>>
    /\ p_pre = NoSnapshot /\ c_pre = NoSnapshot

WrapNext ==
    \/ ProducerCall
    \/ ProducerStep
    \/ ConsumerCall
    \/ ConsumerStep

SpecWrap == InitWrap /\ [][WrapNext]_vars

\* C20, occupancy: write_pos - read_pos, in the counters' own arithmetic, stays
\* within 0 .. capacity while the counters pass 2^W - 1.
C20_Occupancy == Sub(write_pos, read_pos) <= size

\* C20, slots: a counter that has passed 2^W - 1 (in SpecWrap a counter is 0 only
\* then) stands at the slot cyclically after the slot of position 2^W - 1.
C20_SlotsConsecutive ==
    /\ write_pos = 0 => SlotIndex(write_pos) = (SlotIndex(Modulus - 1) + 1) % size
    /\ read_pos = 0 => SlotIndex(read_pos) = (SlotIndex(Modulus - 1) + 1) % size

\* C20, order: what has been popped is a prefix of what has been pushed, and no
\* call has panicked.
C20_Fifo ==
    /\ IsPrefix(popped, pushed)
    /\ ppc # "panicked"
    /\ cpc # "panicked"

\* C20: fixed-width counters and a capacity that need not be a power of two: the
\* counters still act as unbounded positions when they pass 2^W - 1: the
\* occupancy stays within 0 .. capacity, consecutive positions map to cyclically
\* consecutive slots, and FIFO order is preserved.
C20_CountersActUnbounded ==
    /\ C20_Occupancy
    /\ C20_SlotsConsecutive
    /\ C20_Fifo

====
